---- MODULE Spec2Model ----
(***************************************************************************)
(* Model of the fetchThemes job of vscodethemes:                           *)
(*   src/backend/jobs/fetchThemes.ts  (run, fetchMarketplaceThemes,        *)
(*                                     extractRepositories)                *)
(*   src/types/runtime.ts             (payload and extension guards)       *)
(*   src/unnamed/part_000             (the lambda handler around run)      *)
(* The queue backend (services/aws) and the error classes (backend/errors) *)
(* follow spec.md 4.1 and 4.3.                                             *)
(***************************************************************************)
EXTENDS Integers, Sequences, FiniteSets, TLC

(* ---------------------------------------------------------------------- *)
(* Bounds                                                                  *)
(* ---------------------------------------------------------------------- *)
\* concurrent instances of the lambda handler; an instance serves one
\* invocation at a time and is invoked again after it has ended.
MaxWorkers == 1
\* jobs ever put on the queue, the seed included.
MaxJobs == 2
\* records of a page and versions of a record handed to extractRepositories.
MaxThemes == 2
MaxVersions == 2

Procs == 1..MaxWorkers

(* ---------------------------------------------------------------------- *)
(* Job payloads.  A page number v is stored as twice = 2*v so that a       *)
(* non-integer number (1.5) is representable; tag "none" is a payload      *)
(* without page, tag "str" a payload whose page is a string.               *)
(* ---------------------------------------------------------------------- *)
NumPayload(twice) == [tag |-> "num", twice |-> twice]

NoPagePayload == [tag |-> "none", twice |-> 0]

StrPagePayload == [tag |-> "str", twice |-> 0]

\* the externally seeded first job: page 1 (local.ts line 39), or a payload
\* the guard has to reject.
SeedPayloads == {NoPagePayload, StrPagePayload, NumPayload(2)}

\* seeds whose page is a number but not an integer >= 1: 0, -1 and 1.5.
NumberPayloads == {NumPayload(0), NumPayload(-2), NumPayload(3)}

\* (variant: a guard that lets every payload through)
FetchThemesPayloadRuntime_guard_any(payload) == TRUE

\* runtime.ts lines 33-35: Record({ page: Number }), imported by
\* fetchThemes.ts as FetchThemesPayloadRuntime.  Any value of type number
\* passes: integers, non-integers, zero and negatives alike.
FetchThemesPayloadRuntime_guard(payload) == payload.tag = "num"

\* (variant: the next job skips a page)
NextPagePayload_skip(payload) == NumPayload(payload.twice + 4)

\* (variant: the next job carries the same page)
NextPagePayload_same(payload) == NumPayload(payload.twice)

\* fetchThemes.ts line 40: the payload of the next job, { page: page + 1 }.
NextPagePayload(payload) == NumPayload(payload.twice + 2)

(* ---------------------------------------------------------------------- *)
(* Catalog data                                                            *)
(* ---------------------------------------------------------------------- *)
GITHUB_PROPERTY_NAME == "Microsoft.VisualStudio.Services.Links.GitHub"

\* A timestamp string is a sequence of characters; Weight is the rank of a
\* character in the collation used by String.prototype.localeCompare (the
\* root collation: punctuation "-" before the symbol "+" before digits).
Weight(c) ==
  CASE c = "-" -> 1 [] c = "+" -> 2 [] c = "1" -> 3 [] c = "2" -> 4 [] OTHER -> 0

RECURSIVE localeCompare(_, _)
localeCompare(a, b) ==
  IF a = <<>> /\ b = <<>> THEN 0
  ELSE IF a = <<>> THEN -1
  ELSE IF b = <<>> THEN 1
  ELSE IF Weight(Head(a)) < Weight(Head(b)) THEN -1
  ELSE IF Weight(Head(a)) > Weight(Head(b)) THEN 1
  ELSE localeCompare(Tail(a), Tail(b))

GitHubProp(url) == [key |-> GITHUB_PROPERTY_NAME, value |-> url]

OtherProp == [key |-> "Other", value |-> "x"]

\* lastUpdated keeps the characters at which the timestamps differ: the day
\* and the sign of the zone offset ("...01T00:00:00-01:00", "...+01:00").
VOldUrl == [lastUpdated |-> <<"1", "-">>, properties |-> <<OtherProp, GitHubProp("urlA")>>]

VNewUrl == [lastUpdated |-> <<"1", "+">>, properties |-> <<GitHubProp("urlB")>>]

VNewNoUrl == [lastUpdated |-> <<"1", "+">>, properties |-> <<OtherProp>>]

\* named: extensionName, publisher and statistics have the expected shape;
\* hasVersions: versions is an array of well-shaped versions.
Theme(named, hasVersions, versions) ==
  [named |-> named, hasVersions |-> hasVersions, versions |-> versions]

WithUrl == Theme(TRUE, TRUE, <<VOldUrl>>)

\* the latest version is the second one and has no repository link.
LatestWithoutUrl == Theme(TRUE, TRUE, <<VOldUrl, VNewNoUrl>>)

NoVersions == Theme(TRUE, TRUE, <<>>)

Unnamed == Theme(FALSE, TRUE, <<VNewUrl>>)

\* the pages the catalog answers with: the terminal page, a page with one
\* repository link, a page without any, a page with a record without versions.
Pages ==
  {<<>>, <<WithUrl, LatestWithoutUrl>>, <<Unnamed, LatestWithoutUrl>>, <<NoVersions>>}

RECURSIVE SeqsUpTo(_, _)
SeqsUpTo(S, n) ==
  IF n = 0 THEN {<<>>}
  ELSE LET shorter == SeqsUpTo(S, n - 1)
       IN  shorter \cup {Append(s, x) : s \in shorter, x \in S}

\* the inputs of extractRepositories: records with up to MaxVersions
\* versions in every order (two of them tied on lastUpdated), a record that
\* fails the guard, and pages of up to MaxThemes of these records.
ExtractVersions == {VOldUrl, VNewUrl, VNewNoUrl}

ExtractThemes ==
  {Theme(TRUE, TRUE, vs) : vs \in SeqsUpTo(ExtractVersions, MaxVersions)}
  \cup {Unnamed}

ExtractPages == SeqsUpTo(ExtractThemes, MaxThemes) \ {<<>>}

\* runtime.ts ExtensionRuntime: a Record of extensionName, publisher,
\* versions: Array(VersionRuntime), statistics.
ExtensionRuntime_guard(theme) == theme.named /\ theme.hasVersions

\* (variant: not stable, an element is placed before the ones it is equal to)
RECURSIVE InsertVersion_tiesFirst(_, _)
InsertVersion_tiesFirst(v, sorted) ==
  IF sorted = <<>> THEN <<v>>
  ELSE IF localeCompare(v.lastUpdated, Head(sorted).lastUpdated) >= 0
       THEN <<v>> \o sorted
       ELSE <<Head(sorted)>> \o InsertVersion_tiesFirst(v, Tail(sorted))

\* Array.prototype.sort with comparator (a, b) => b.lastUpdated.localeCompare(a.lastUpdated):
\* a stable sort, descending by lastUpdated
\* (an element is placed before the first one it is strictly greater than).
RECURSIVE InsertVersion(_, _)
InsertVersion(v, sorted) ==
  IF sorted = <<>> THEN <<v>>
  ELSE IF localeCompare(v.lastUpdated, Head(sorted).lastUpdated) > 0
       THEN <<v>> \o sorted
       ELSE <<Head(sorted)>> \o InsertVersion(v, Tail(sorted))

RECURSIVE SortVersions(_)
SortVersions(versions) ==
  IF versions = <<>> THEN <<>>
  ELSE InsertVersion(versions[Len(versions)],
                     SortVersions(SubSeq(versions, 1, Len(versions) - 1)))

\* Array.prototype.find(prop => prop.key === GITHUB_PROPERTY_NAME)
RECURSIVE FindRepoUrlProp(_)
FindRepoUrlProp(properties) ==
  IF properties = <<>> THEN [found |-> FALSE, value |-> ""]
  ELSE IF Head(properties).key = GITHUB_PROPERTY_NAME
       THEN [found |-> TRUE, value |-> Head(properties).value]
       ELSE FindRepoUrlProp(Tail(properties))

\* extractRepositories (lines 138-173).  The result records the urls, the
\* themes as left behind by the in-place sort, and whether a TypeError was
\* thrown (latestVersion is undefined for a record with no versions).
RECURSIVE extractFrom(_, _, _)
extractFrom(themes, i, acc) ==
  IF i > Len(themes) THEN acc
  ELSE LET theme == themes[i]
       IN  IF ~ExtensionRuntime_guard(theme)
           THEN extractFrom(themes, i + 1, acc)
           ELSE LET sorted == SortVersions(theme.versions)
                    after  == [acc.themes EXCEPT ![i].versions = sorted]
                IN  IF sorted = <<>>
                    THEN [acc EXCEPT !.throws = TRUE, !.themes = after]
                    ELSE LET prop == FindRepoUrlProp(sorted[1].properties)
                         IN  extractFrom(themes, i + 1,
                               [acc EXCEPT !.themes = after,
                                           !.repos = IF prop.found
                                                     THEN Append(@, prop.value)
                                                     ELSE @])

extractRepositories(themes) ==
  extractFrom(themes, 1, [throws |-> FALSE, repos |-> <<>>, themes |-> themes])

(* ---------------------------------------------------------------------- *)
(* Errors (backend/errors, spec.md 4.3)                                    *)
(* ---------------------------------------------------------------------- *)
NoError == [class |-> "None", origin |-> "none"]

TransientJobError(origin) == [class |-> "Transient", origin |-> origin]

PermanentJobError(origin) == [class |-> "Permanent", origin |-> origin]

\* Any other thrown value: TypeError, a rejected fetch, a failed queue call.
OtherError(origin) == [class |-> "Other", origin |-> origin]

TransientJobError_is(err) == err.class = "Transient"

PermanentJobError_is(err) == err.class = "Permanent"

(* ---------------------------------------------------------------------- *)
(* Catalog responses and fetchMarketplaceThemes (lines 83-133)             *)
(* ---------------------------------------------------------------------- *)
Response(kind, extensions) == [kind |-> kind, extensions |-> extensions]

\* reject: fetch rejects; notOk: response.ok is false; unparsable: json()
\* rejects; noResults: {}; emptyResults: {results: []};
\* noExtensions: {results: [{}]}; page: {results: [{extensions: [...]}]}.
Responses ==
  {Response(k, <<>>) : k \in {"reject", "notOk", "unparsable",
                              "noResults", "emptyResults", "noExtensions"}}
  \cup {Response("page", pg) : pg \in Pages}

FetchResult(err, defined, list) == [err |-> err, defined |-> defined, list |-> list]

\* (variant: response.ok is not tested, the body of an error response is read)
fetchMarketplaceThemes_noStatusCheck(resp) ==
  CASE resp.kind = "reject" -> FetchResult(OtherError("fetch"), FALSE, <<>>)
    [] resp.kind = "unparsable" -> FetchResult(OtherError("json"), FALSE, <<>>)
    [] resp.kind = "notOk" -> FetchResult(OtherError("json"), FALSE, <<>>)
    [] resp.kind \in {"noResults", "emptyResults"} ->
         FetchResult(TransientJobError("Invalid response data"), FALSE, <<>>)
    [] resp.kind = "noExtensions" -> FetchResult(NoError, FALSE, <<>>)
    [] OTHER -> FetchResult(NoError, TRUE, resp.extensions)

\* (variant: a bad status is raised as a Permanent error)
fetchMarketplaceThemes_permanentStatus(resp) ==
  CASE resp.kind = "reject" -> FetchResult(OtherError("fetch"), FALSE, <<>>)
    [] resp.kind = "notOk" -> FetchResult(PermanentJobError("Bad response"), FALSE, <<>>)
    [] resp.kind = "unparsable" -> FetchResult(OtherError("json"), FALSE, <<>>)
    [] resp.kind \in {"noResults", "emptyResults"} ->
         FetchResult(TransientJobError("Invalid response data"), FALSE, <<>>)
    [] resp.kind = "noExtensions" -> FetchResult(NoError, FALSE, <<>>)
    [] OTHER -> FetchResult(NoError, TRUE, resp.extensions)

\* lines 111-132: a rejected fetch and a rejected json() are not caught here;
\* the inner try turns a TypeError of data.results[0].extensions into a
\* TransientJobError; {results: [{}]} yields undefined without throwing.
fetchMarketplaceThemes(resp) ==
  CASE resp.kind = "reject" -> FetchResult(OtherError("fetch"), FALSE, <<>>)
    [] resp.kind = "notOk" -> FetchResult(TransientJobError("Bad response"), FALSE, <<>>)
    [] resp.kind = "unparsable" -> FetchResult(OtherError("json"), FALSE, <<>>)
    [] resp.kind \in {"noResults", "emptyResults"} ->
         FetchResult(TransientJobError("Invalid response data"), FALSE, <<>>)
    [] resp.kind = "noExtensions" -> FetchResult(NoError, FALSE, <<>>)
    [] OTHER -> FetchResult(NoError, TRUE, resp.extensions)

(* ---------------------------------------------------------------------- *)
(* Decisions of run (lines 11-78)                                          *)
(* ---------------------------------------------------------------------- *)
\* (variants: the length test is lost one way or the other)
AfterFetch_alwaysSucceed(list) == "succeed"

AfterFetch_alwaysCreate(list) == "create"

\* lines 31-40: an empty page is acknowledged, a non-empty one continues.
AfterFetch(list) == IF Len(list) = 0 THEN "succeed" ELSE "create"

\* lines 45-57: no repositories -> return, otherwise succeed.
AfterExtract(repos) == IF Len(repos) = 0 THEN "return" ELSE "succeed"

\* (variant: everything that is not Permanent is retried)
CatchPlan_retryOther(err) ==
  IF PermanentJobError_is(err) THEN [op |-> "fail", rethrow |-> FALSE]
  ELSE [op |-> "retry", rethrow |-> FALSE]

\* (variant: the unexpected error is not rethrown)
CatchPlan_swallow(err) ==
  IF TransientJobError_is(err) THEN [op |-> "retry", rethrow |-> FALSE]
  ELSE [op |-> "fail", rethrow |-> FALSE]

\* lines 64-76: the queue call of the catch block and whether err is rethrown.
CatchPlan(err) ==
  IF TransientJobError_is(err) THEN [op |-> "retry", rethrow |-> FALSE]
  ELSE IF PermanentJobError_is(err) THEN [op |-> "fail", rethrow |-> FALSE]
  ELSE [op |-> "fail", rethrow |-> TRUE]

(* ---------------------------------------------------------------------- *)
(* State                                                                   *)
(* ---------------------------------------------------------------------- *)
VARIABLES
  jobs,      \* the queue: sequence of [payload, status, holder]; receipt = index
  pc,        \* per invocation: position in handler/run
  job,       \* per invocation: index of the received job, 0 if none
  themes,    \* per invocation: [defined, list], the value of `themes` in run
  repos,     \* per invocation: the value of `repositories` in run
  err,       \* per invocation: the error caught by run's catch block
  calls,     \* per invocation: the fetch/queue calls issued so far, in order
  thrown,    \* per invocation: the error run or handler ended with
  context    \* per invocation: "none", or the lambda outcome "succeed"/"fail"

vars == <<jobs, pc, job, themes, repos, err, calls, thrown, context>>

JobNames == {"fetchThemes", "fetchRepository"}

\* part_000 lines 8-11: the dispatch table holds fetchThemes only.
HandlerJobs == {"fetchThemes"}

Call(op, payload, res) == [op |-> op, payload |-> payload, res |-> res]

QueueResults == {"ok", "throws"}

\* a dropped notify is one that returns: the caller cannot tell them apart.
NotifyResults == {"ok", "throws"}

Queued == {j \in 1..Len(jobs) : jobs[j].status = "queued"}

NewJob(payload) == [payload |-> payload, status |-> "queued", holder |-> 0]

InitFrom(seeds) ==
  /\ \E seed \in seeds : jobs = <<NewJob(seed)>>
  /\ pc = [p \in Procs |-> "idle"]
  /\ job = [p \in Procs |-> 0]
  /\ themes = [p \in Procs |-> [defined |-> FALSE, list |-> <<>>]]
  /\ repos = [p \in Procs |-> <<>>]
  /\ err = [p \in Procs |-> NoError]
  /\ calls = [p \in Procs |-> <<>>]
  /\ thrown = [p \in Procs |-> NoError]
  /\ context = [p \in Procs |-> "none"]

Init == InitFrom(SeedPayloads)

\* part_000 lines 22-26: run returned (e = NoError) or threw e.
Exit(p, e) ==
  /\ pc' = [pc EXCEPT ![p] = "exited"]
  /\ thrown' = [thrown EXCEPT ![p] = e]
  /\ context' = [context EXCEPT ![p] = IF e = NoError THEN "succeed" ELSE "fail"]

\* control passes to the catch block of run with error e.
Raise(p, e) ==
  /\ pc' = [pc EXCEPT ![p] = "catch"]
  /\ err' = [err EXCEPT ![p] = e]

Issue(p, c) == calls' = [calls EXCEPT ![p] = Append(@, c)]

Payload(p) == jobs[job[p]].payload

(* ---------------------------------------------------------------------- *)
(* Actions                                                                 *)
(* ---------------------------------------------------------------------- *)
\* part_000 lines 13-21: look the job up by name.
HandlerInvoke(p) ==
  /\ pc[p] \in {"idle", "exited"}
  /\ IF p = 1 THEN TRUE ELSE pc[p - 1] # "idle"
  /\ job' = [job EXCEPT ![p] = 0]
  /\ themes' = [themes EXCEPT ![p] = [defined |-> FALSE, list |-> <<>>]]
  /\ repos' = [repos EXCEPT ![p] = <<>>]
  /\ err' = [err EXCEPT ![p] = NoError]
  /\ calls' = [calls EXCEPT ![p] = <<>>]
  /\ \E jobName \in JobNames :
       IF jobName \in HandlerJobs
       THEN /\ pc' = [pc EXCEPT ![p] = "receive"]
            /\ thrown' = [thrown EXCEPT ![p] = NoError]
            /\ context' = [context EXCEPT ![p] = "none"]
       ELSE Exit(p, OtherError("Invalid job"))
  /\ UNCHANGED jobs

\* (variant: an empty queue is reported as an error)
ReceiveNone_throws(p) ==
  /\ Exit(p, OtherError("No more jobs"))
  /\ UNCHANGED <<jobs, job>>

\* run lines 15-18: receive returned no job, run returns.
ReceiveNone(p) ==
  /\ Exit(p, NoError)
  /\ UNCHANGED <<jobs, job>>

\* run lines 14-18.
Receive(p) ==
  /\ pc[p] = "receive"
  /\ \E res \in QueueResults :
       IF res = "throws"
       THEN /\ Exit(p, OtherError("receive"))
            /\ UNCHANGED <<jobs, job>>
       ELSE IF Queued = {}
       THEN ReceiveNone(p)
       ELSE \E j \in Queued :
              /\ jobs' = [jobs EXCEPT ![j].status = "held", ![j].holder = p]
              /\ job' = [job EXCEPT ![p] = j]
              /\ pc' = [pc EXCEPT ![p] = "try"]
              /\ UNCHANGED <<thrown, context>>
  /\ UNCHANGED <<themes, repos, err, calls>>

\* run lines 24-38 up to the first queue call: validate, fetch, test length.
Fetch(p) ==
  /\ pc[p] = "try"
  /\ IF ~FetchThemesPayloadRuntime_guard(Payload(p))
     THEN /\ Raise(p, PermanentJobError("Invalid job payload"))
          /\ UNCHANGED <<themes, calls>>
     ELSE \E resp \in Responses :
            LET r == fetchMarketplaceThemes(resp)
            IN  /\ Issue(p, Call("fetch", Payload(p), resp.kind))
                /\ themes' = [themes EXCEPT ![p] = [defined |-> r.defined, list |-> r.list]]
                /\ IF r.err # NoError THEN Raise(p, r.err)
                   ELSE IF ~r.defined THEN Raise(p, OtherError("TypeError"))
                   ELSE /\ pc' = [pc EXCEPT ![p] = AfterFetch(r.list)]
                        /\ UNCHANGED err
  /\ UNCHANGED <<jobs, job, repos, thrown, context>>

\* run lines 36-37 and 57-63: await fetchThemes.succeed(job).
Succeed(p) ==
  /\ pc[p] = "succeed"
  /\ \E res \in QueueResults :
       /\ Issue(p, Call("succeed", Payload(p), res))
       /\ IF res = "ok"
          THEN /\ jobs' = [jobs EXCEPT ![job[p]].status = "done", ![job[p]].holder = 0]
               /\ Exit(p, NoError)
               /\ UNCHANGED err
          ELSE /\ Raise(p, OtherError("succeed"))
               /\ UNCHANGED <<jobs, thrown, context>>
  /\ UNCHANGED <<job, themes, repos>>

\* run line 40: await fetchThemes.create({ page: page + 1 }).
Create(p) ==
  /\ pc[p] = "create"
  /\ \E res \in QueueResults :
       /\ Issue(p, Call("create", NextPagePayload(Payload(p)), res))
       /\ IF res = "ok"
          THEN /\ Len(jobs) < MaxJobs
               /\ jobs' = Append(jobs, NewJob(NextPagePayload(Payload(p))))
               /\ pc' = [pc EXCEPT ![p] = "notify"]
               /\ UNCHANGED err
          ELSE /\ Raise(p, OtherError("create"))
               /\ UNCHANGED jobs
  /\ UNCHANGED <<job, themes, repos, thrown, context>>

\* run line 42: await fetchThemes.notify().
Notify(p) ==
  /\ pc[p] = "notify"
  /\ \E res \in NotifyResults :
       /\ Issue(p, Call("notify", Payload(p), res))
       /\ IF res = "throws"
          THEN Raise(p, OtherError("notify"))
          ELSE /\ pc' = [pc EXCEPT ![p] = "extract"]
               /\ UNCHANGED err
  /\ UNCHANGED <<jobs, job, themes, repos, thrown, context>>

\* run lines 44-50: extractRepositories and the test for no repositories.
Extract(p) ==
  /\ pc[p] = "extract"
  /\ LET r == extractRepositories(themes[p].list)
     IN  /\ Issue(p, Call("extract", Payload(p), IF r.throws THEN "throws" ELSE "ok"))
         /\ themes' = [themes EXCEPT ![p].list = r.themes]
         /\ IF r.throws
            THEN /\ Raise(p, OtherError("TypeError"))
                 /\ UNCHANGED <<repos, thrown, context>>
            ELSE /\ repos' = [repos EXCEPT ![p] = r.repos]
                 /\ UNCHANGED err
                 /\ IF AfterExtract(r.repos) = "return"
                    THEN Exit(p, NoError)
                    ELSE /\ pc' = [pc EXCEPT ![p] = "succeed"]
                         /\ UNCHANGED <<thrown, context>>
  /\ UNCHANGED <<jobs, job>>

\* run lines 64-77: the catch block.
Catch(p) ==
  /\ pc[p] = "catch"
  /\ LET plan == CatchPlan(err[p])
     IN  \E res \in QueueResults :
           /\ Issue(p, Call(plan.op, Payload(p), res))
           /\ IF res = "throws"
              THEN /\ Exit(p, OtherError(plan.op))
                   /\ UNCHANGED jobs
              ELSE /\ jobs' = [jobs EXCEPT
                                 ![job[p]].status = IF plan.op = "retry" THEN "queued" ELSE "dead",
                                 ![job[p]].holder = 0]
                   /\ Exit(p, IF plan.rethrow THEN err[p] ELSE NoError)
  /\ UNCHANGED <<job, themes, repos, err>>

\* queue backend: a job whose consumer ended without acknowledging it
\* becomes visible again (at-least-once delivery).
Redeliver(j) ==
  /\ jobs[j].status = "held"
  /\ pc[jobs[j].holder] = "exited" \/ job[jobs[j].holder] # j
  /\ jobs' = [jobs EXCEPT ![j].status = "queued", ![j].holder = 0]
  /\ UNCHANGED <<pc, job, themes, repos, err, calls, thrown, context>>

Next ==
  \/ \E p \in Procs : HandlerInvoke(p)
  \/ \E p \in Procs : Receive(p)
  \/ \E p \in Procs : Fetch(p)
  \/ \E p \in Procs : Succeed(p)
  \/ \E p \in Procs : Create(p)
  \/ \E p \in Procs : Notify(p)
  \/ \E p \in Procs : Extract(p)
  \/ \E p \in Procs : Catch(p)
  \/ \E j \in 1..Len(jobs) : Redeliver(j)

Spec == Init /\ [][Next]_vars

\* the same program, seeded with a job whose page is any number.
InitAnyNumber == InitFrom(NumberPayloads)

SpecAnyNumber == InitAnyNumber /\ [][Next]_vars

\* run from line 44 on, for every page of ExtractPages: the job of page 1
\* is in hand, the job of page 2 is created and notify has returned.
InitExtract ==
  /\ jobs = <<[payload |-> NumPayload(2), status |-> "held", holder |-> 1],
              NewJob(NextPagePayload(NumPayload(2)))>>
  /\ pc = [p \in Procs |-> IF p = 1 THEN "extract" ELSE "idle"]
  /\ job = [p \in Procs |-> IF p = 1 THEN 1 ELSE 0]
  /\ \E pg \in ExtractPages :
       themes = [p \in Procs |-> IF p = 1 THEN [defined |-> TRUE, list |-> pg]
                                 ELSE [defined |-> FALSE, list |-> <<>>]]
  /\ repos = [p \in Procs |-> <<>>]
  /\ err = [p \in Procs |-> NoError]
  /\ calls = [p \in Procs |->
               IF p = 1
               THEN <<Call("fetch", NumPayload(2), "page"),
                      Call("create", NextPagePayload(NumPayload(2)), "ok"),
                      Call("notify", NumPayload(2), "ok")>>
               ELSE <<>>]
  /\ thrown = [p \in Procs |-> NoError]
  /\ context = [p \in Procs |-> "none"]

NextExtract ==
  \/ \E p \in Procs : Extract(p)
  \/ \E p \in Procs : Succeed(p)
  \/ \E p \in Procs : Catch(p)

SpecExtract == InitExtract /\ [][NextExtract]_vars

TypeOK ==
  /\ Len(jobs) \in 1..MaxJobs
  /\ \A p \in Procs :
       /\ pc[p] \in {"idle", "receive", "try", "succeed", "create", "notify",
                     "extract", "catch", "exited"}
       /\ job[p] \in 0..Len(jobs)
       /\ context[p] \in {"none", "succeed", "fail"}

(* ---------------------------------------------------------------------- *)
(* Vocabulary of the properties                                            *)
(* ---------------------------------------------------------------------- *)
Positions(p, op) == {i \in 1..Len(calls[p]) : calls[p][i].op = op}

Issued(p, op) == Positions(p, op) # {}

IssuedWith(p, op, res) == \E i \in Positions(p, op) : calls[p][i].res = res

Acks(p) == Positions(p, "succeed") \cup Positions(p, "fail") \cup Positions(p, "retry")

HasJob(p) == job[p] # 0

Ended(p) == pc[p] = "exited"

NonEmptyPage(p) == themes[p].defined /\ Len(themes[p].list) > 0

EmptyPage(p) == themes[p].defined /\ Len(themes[p].list) = 0

\* the repository links among the properties of a version.
LinksOf(version) ==
  {version.properties[k].value :
     k \in {n \in 1..Len(version.properties) :
              version.properties[n].key = GITHUB_PROPERTY_NAME}}

\* a record that contributes a url, judged on the record as extraction left
\* it: it has the expected shape and its first version carries a link.
Contributes(theme) ==
  /\ theme.named /\ theme.hasVersions
  /\ theme.versions # <<>>
  /\ LinksOf(theme.versions[1]) # {}

RECURSIVE UrlsOfSelected(_)
UrlsOfSelected(list) ==
  IF list = <<>> THEN <<>>
  ELSE (IF Contributes(Head(list))
        THEN <<CHOOSE u \in LinksOf(Head(list).versions[1]) : TRUE>>
        ELSE <<>>) \o UrlsOfSelected(Tail(list))

Range(seq) == {seq[k] : k \in 1..Len(seq)}

\* string comparison (the relational operators on strings): by UTF-16 code
\* units, "+" is 43, "-" is 45, the digits follow.
CodeUnit(c) ==
  CASE c = "+" -> 43 [] c = "-" -> 45 [] c = "1" -> 49 [] c = "2" -> 50 [] OTHER -> 0

RECURSIVE StringCompare(_, _)
StringCompare(a, b) ==
  IF a = <<>> /\ b = <<>> THEN 0
  ELSE IF a = <<>> THEN -1
  ELSE IF b = <<>> THEN 1
  ELSE IF CodeUnit(Head(a)) < CodeUnit(Head(b)) THEN -1
  ELSE IF CodeUnit(Head(a)) > CodeUnit(Head(b)) THEN 1
  ELSE StringCompare(Tail(a), Tail(b))

\* the invocation of p has extracted its whole page.
Extracted(p) == IssuedWith(p, "extract", "ok")

PlusOne(payload, base) == payload.tag = "num" /\ payload.twice = base.twice + 2

(* ---------------------------------------------------------------------- *)
(* Properties                                                              *)
(* ---------------------------------------------------------------------- *)

\* C1: every ended invocation that received a job has issued exactly one of
\* succeed, fail, retry for it.
C1_ExactlyOneAck ==
  \A p \in Procs : (Ended(p) /\ HasJob(p)) => Cardinality(Acks(p)) = 1

\* C2: whenever succeed is issued on the job of a non-empty page, a create
\* of page + 1 has completed earlier in the same invocation, and the job a
\* completed create enqueued is in the queue whatever the invocation did
\* afterwards (failed, threw, ended).
C2_CreateBeforeSucceed ==
  \A p \in Procs :
    /\ NonEmptyPage(p) =>
         \A i \in Positions(p, "succeed") :
           \E k \in 1..(i - 1) :
             /\ calls[p][k].op = "create"
             /\ calls[p][k].res = "ok"
             /\ PlusOne(calls[p][k].payload, Payload(p))
    /\ \A k \in Positions(p, "create") :
         calls[p][k].res = "ok" =>
           \E j \in 2..Len(jobs) : jobs[j].payload = calls[p][k].payload

C2_Witness ==
  \E p \in Procs :
    /\ Ended(p) /\ NonEmptyPage(p)
    /\ IssuedWith(p, "succeed", "ok")
    /\ jobs[job[p]].status = "done"

\* C3: an invocation whose extraction of a non-empty page completed ends
\* with succeed issued on its job, also when no url was extracted.
C3_SucceedRegardless ==
  \A p \in Procs :
    (Ended(p) /\ NonEmptyPage(p) /\ IssuedWith(p, "extract", "ok"))
      => Issued(p, "succeed")

\* C4: on a non-empty page create is called exactly once, with page + 1;
\* notify is called right after the create returned; extraction starts
\* only after both.
C4_CreateNotifyThenExtract ==
  \A p \in Procs :
    NonEmptyPage(p) =>
      /\ Cardinality(Positions(p, "create")) = (IF pc[p] = "create" THEN 0 ELSE 1)
      /\ \A i \in Positions(p, "create") : PlusOne(calls[p][i].payload, Payload(p))
      /\ Cardinality(Positions(p, "notify")) =
           (IF IssuedWith(p, "create", "ok") /\ pc[p] # "notify" THEN 1 ELSE 0)
      /\ \A i \in Positions(p, "notify") :
           /\ i > 1
           /\ calls[p][i - 1].op = "create"
           /\ calls[p][i - 1].res = "ok"
      /\ \A i \in Positions(p, "extract") :
           /\ i > 2
           /\ calls[p][i - 1].op = "notify"
           /\ calls[p][i - 2].op = "create"

C4_Witness ==
  \E p \in Procs :
    /\ NonEmptyPage(p)
    /\ Issued(p, "extract")
    /\ \E j \in 2..Len(jobs) : PlusOne(jobs[j].payload, Payload(p))

\* C5: on a page with zero extensions the invocation issues succeed and
\* nothing else: no create, no notify, no extraction, no repository url.
C5_EmptyPageSucceeds ==
  \A p \in Procs :
    EmptyPage(p) =>
      /\ ~Issued(p, "create") /\ ~Issued(p, "notify") /\ ~Issued(p, "extract")
      /\ repos[p] = <<>>
      /\ pc[p] # "succeed" => (Len(calls[p]) >= 2 /\ calls[p][2].op = "succeed")
      /\ (Ended(p) /\ IssuedWith(p, "succeed", "ok")) =>
           (jobs[job[p]].status = "done" /\ thrown[p] = NoError)

C5_Witness ==
  \E p \in Procs :
    Ended(p) /\ EmptyPage(p) /\ IssuedWith(p, "succeed", "ok") /\ Len(jobs) = 1

\* C6: after a non-success status the caught error is Transient, the job is
\* closed with retry, fail, create and notify are never called, and the
\* Transient error does not leave run.
C6_BadStatusRetries ==
  \A p \in Procs :
    IssuedWith(p, "fetch", "notOk") =>
      /\ err[p].class = "Transient"
      /\ ~Issued(p, "fail") /\ ~Issued(p, "create") /\ ~Issued(p, "notify")
      /\ ~Issued(p, "succeed")
      /\ Ended(p) =>
           /\ Cardinality(Positions(p, "retry")) = 1
           /\ thrown[p].class # "Transient"
           /\ IssuedWith(p, "retry", "ok") =>
                (thrown[p] = NoError /\ context[p] = "succeed")

C6_Witness ==
  \E p \in Procs :
    Ended(p) /\ IssuedWith(p, "fetch", "notOk") /\ IssuedWith(p, "retry", "ok")

\* C7: a job whose payload has no page, or a page that is not a number, is
\* closed with fail after a Permanent error: no retry, no fetch, no create.
C7_InvalidPayloadFails ==
  \A p \in Procs :
    (HasJob(p) /\ Payload(p).tag \in {"none", "str"} /\ pc[p] # "try") =>
      /\ err[p].class = "Permanent"
      /\ ~Issued(p, "fetch") /\ ~Issued(p, "create") /\ ~Issued(p, "retry")
      /\ Ended(p) => Cardinality(Positions(p, "fail")) = 1

C7_Witness ==
  \E p \in Procs :
    /\ Ended(p) /\ HasJob(p) /\ Payload(p).tag = "none"
    /\ IssuedWith(p, "fail", "ok")
    /\ jobs[job[p]].status = "dead"

\* C8: a success-status response whose body is unparsable or lacks
\* results[0].extensions raises a Transient error and the job is closed
\* with retry, not with fail, and no error leaves run.
C8_MalformedBodyRetries ==
  \A p \in Procs :
    (Ended(p) /\ \E k \in {"unparsable", "noResults", "emptyResults",
                            "noExtensions"} : IssuedWith(p, "fetch", k)) =>
      /\ err[p].class = "Transient"
      /\ Issued(p, "retry")
      /\ ~Issued(p, "fail")

\* C9: when the caught error is neither Transient nor Permanent, the last
\* call of the invocation is fail on the job, retry is never issued, the
\* handler reports context.fail, and the error that leaves run is the
\* caught one once fail has returned.
C9_UnclassifiedFailsAndRethrows ==
  \A p \in Procs :
    (Ended(p) /\ err[p].class = "Other") =>
      /\ Len(calls[p]) > 0
      /\ calls[p][Len(calls[p])].op = "fail"
      /\ ~Issued(p, "retry")
      /\ context[p] = "fail"
      /\ thrown[p] # NoError
      /\ calls[p][Len(calls[p])].res = "ok" => thrown[p] = err[p]

C9_Witness ==
  \E p \in Procs :
    /\ Ended(p) /\ err[p].class = "Other"
    /\ IssuedWith(p, "fail", "ok")
    /\ context[p] = "fail"
    /\ jobs[job[p]].status = "dead"

\* C10: on a non-empty page the invocation runs extraction whatever notify
\* did (returned, raised an error), and never issues fail
\* because of notify.
C10_NotifyDoesNotMatter ==
  \A p \in Procs :
    (Ended(p) /\ Issued(p, "notify")) =>
      /\ Issued(p, "extract")
      /\ err[p] # OtherError("notify")

\* C11 (as claimed): when fail is issued because of a Permanent error, the
\* job of page + 1 has already been created by the invocation.
C11_NextCreatedBeforePermanentFail ==
  \A p \in Procs :
    (err[p].class = "Permanent" /\ Issued(p, "fail")) =>
      \E k \in Positions(p, "create") :
        calls[p][k].res = "ok" /\ PlusOne(calls[p][k].payload, Payload(p))

\* C11 (amended): a Permanent error is raised by payload validation only,
\* before the fetch and the create: when fail is issued because of it, the
\* invocation has issued no fetch, no create and no notify, and the payload
\* carries no page number from which a next page could be derived.
C11_PermanentFailBeforeCreate ==
  \A p \in Procs :
    err[p].class = "Permanent" =>
      /\ HasJob(p) /\ Payload(p).tag # "num"
      /\ ~Issued(p, "fetch") /\ ~Issued(p, "create") /\ ~Issued(p, "notify")
      /\ \A i \in 1..Len(calls[p]) : calls[p][i].op = "fail"

C11_Witness ==
  \E p \in Procs :
    /\ Ended(p) /\ err[p].class = "Permanent"
    /\ calls[p] = <<Call("fail", Payload(p), "ok")>>
    /\ Len(jobs) = 1 /\ jobs[1].status = "dead"

C13_NetworkFailureRetries ==
  \A p \in Procs :
    (Ended(p) /\ IssuedWith(p, "fetch", "reject")) =>
      /\ err[p].class = "Transient"
      /\ Issued(p, "retry")
      /\ ~Issued(p, "fail")
      /\ IssuedWith(p, "retry", "ok") => thrown[p] = NoError

\* C17: an invocation that issues retry has issued neither create nor
\* notify before: retry is the only queue call of the invocation, so the
\* redelivery it causes finds no next-page job left behind by it.
C17_RetryBeforeCreate ==
  \A p \in Procs :
    Issued(p, "retry") =>
      /\ ~Issued(p, "create") /\ ~Issued(p, "notify")
      /\ Len(calls[p]) = 2
      /\ calls[p][1].op = "fetch"
      /\ calls[p][2].op = "retry"

C17_Witness ==
  \E p \in Procs :
    /\ Ended(p) /\ IssuedWith(p, "retry", "ok")
    /\ jobs[job[p]].status = "queued"
    /\ Len(jobs) = 1

\* C20: a step in which receive returns no job ends the invocation without
\* error and changes nothing else: the queue is as it was and the
\* invocation has issued no fetch and no queue call.
C20_NoJobNoEffect ==
  [][\A p \in Procs :
       (pc[p] = "receive" /\ pc'[p] = "exited" /\ Queued = {} /\ thrown'[p].origin # "receive") =>
         /\ jobs' = jobs
         /\ calls'[p] = <<>>
         /\ job'[p] = 0
         /\ thrown'[p] = NoError
         /\ context'[p] = "succeed"]_vars

C20_Witness ==
  \E p \in Procs :
    /\ Ended(p) /\ ~HasJob(p)
    /\ thrown[p] = NoError /\ context[p] = "succeed"
    /\ calls[p] = <<>>
    /\ Queued = {}

\* C14: validation rejects a page that is not an integer >= 1 with a
\* Permanent error before any catalog request, so every fetch and every
\* create carries a page that is an integer >= 1.
C14_PagesArePositiveIntegers ==
  \A p \in Procs :
    /\ \A i \in 1..Len(calls[p]) :
         calls[p][i].op \in {"fetch", "create"} =>
           /\ calls[p][i].payload.tag = "num"
           /\ calls[p][i].payload.twice >= 2
           /\ calls[p][i].payload.twice % 2 = 0
    /\ (HasJob(p) /\ pc[p] # "try"
          /\ (Payload(p).twice < 2 \/ Payload(p).twice % 2 # 0)) =>
         err[p].class = "Permanent"

\* C15: extraction never raises an error because of a record: it completes
\* on every page, a record that fails the guard or whose selected version
\* has no repository link adds nothing, and the result is the urls of the
\* other records in page order.
C15_RecordsNeverAbortPage ==
  \A p \in Procs :
    Issued(p, "extract") =>
      /\ IssuedWith(p, "extract", "ok")
      /\ pc[p] # "catch" => repos[p] = UrlsOfSelected(themes[p].list)

\* C16: when every fetch and every queue operation of a run succeeded, the
\* run has acknowledged its job, so the backend never has to redeliver it:
\* a job is redelivered only after an operation of its consumer failed.
C16_RedeliveredOnlyAfterFailure ==
  [][\A j \in 1..Len(jobs) :
       LET h == jobs[j].holder
       IN  (/\ jobs[j].status = "held"
            /\ jobs'[j].status = "queued"
            /\ calls' = calls
            /\ job[h] = j)
             => \E i \in 1..Len(calls[h]) :
                  calls[h][i].res \notin {"ok", "page", "emptyResults"}]_vars

\* C18: after extraction, in every valid record with two or more versions
\* the version that was searched for the link (the first one after the
\* sort) has a lastUpdated that no version of the record exceeds under
\* string comparison.
C18_SelectedIsStringMaximal ==
  \A p \in Procs :
    Extracted(p) =>
      \A i \in 1..Len(themes[p].list) :
        LET theme == themes[p].list[i]
        IN  (theme.named /\ theme.hasVersions /\ Len(theme.versions) >= 2)
              => \A v \in Range(theme.versions) :
                   StringCompare(v.lastUpdated, theme.versions[1].lastUpdated) <= 0

\* C19: running extractRepositories again on the page data as the first
\* run left it (versions re-sorted in place) has the outcome of the first
\* run: it throws exactly if the first run threw, and otherwise yields the
\* same set of urls.
C19_ExtractTwiceSameUrls ==
  \A p \in Procs :
    Issued(p, "extract") =>
      LET again == extractRepositories(themes[p].list)
      IN  /\ again.throws <=> IssuedWith(p, "extract", "throws")
          /\ ~again.throws => Range(again.repos) = Range(repos[p])

\* a page was extracted with a record whose two newest versions are tied
\* and differ in whether they carry the link.
C19_Witness ==
  \E p \in Procs :
    /\ Extracted(p)
    /\ repos[p] # <<>>
    /\ \E i \in 1..Len(themes[p].list) :
         LET vs == themes[p].list[i].versions
         IN  /\ Len(vs) >= 2
             /\ vs[1].lastUpdated = vs[2].lastUpdated
             /\ LinksOf(vs[1]) # LinksOf(vs[2])

====
